---- MODULE Spec2Model ----
(***************************************************************************)
(* Model of server-improved.js: the POST /api/analyze handler and the      *)
(* ImprovedStockScraper class (three extractors, the Promise.allSettled    *)
(* join, the field merge, the two summaries and the OpenAI fallback).      *)
(*                                                                         *)
(* Numbers are kept in hundredths (15.00 is 1500), which is the resolution *)
(* of every toFixed(2) in the source.  A JavaScript value is a record      *)
(* [t, n, s]: its typeof tag, its number (hundredths) and its text.  A     *)
(* numeric string such as "0.00" carries both its text and the number the  *)
(* text denotes, so that parseFloat has something to read.  The timestamp  *)
(* scraped_at is the wall clock and is left out.                           *)
(***************************************************************************)
EXTENDS Integers, Sequences, FiniteSets, TLC

-----------------------------------------------------------------------------
(* JavaScript values and the operators the source applies to them *)

Undefined == [t |-> "undefined", n |-> 0, s |-> ""]
Null == [t |-> "null", n |-> 0, s |-> ""]
Num(x) == [t |-> "number", n |-> x, s |-> ""]
NaN == [t |-> "number", n |-> 0, s |-> "NaN"]
Str(x) == [t |-> "string", n |-> 0, s |-> x]
NumStr(x, text) == [t |-> "string", n |-> x, s |-> text]

\* ToBoolean: undefined, null, 0, NaN and "" are falsy, everything else truthy
Truthy(v) ==
    CASE v.t = "number" -> IF v.s = "" THEN v.n # 0 ELSE v.s # "NaN"
      [] v.t = "string" -> v.s # ""
      [] OTHER -> FALSE

\* a || b
Or(a, b) == IF Truthy(a) THEN a ELSE b

\* typeof v === 'number'
IsNumber(v) == v.t = "number"

\* parseFloat(v): a numeric string gives the number it denotes (Infinity
\* keeps its sign in n and its name in s), anything else NaN
ParseFloat(v) ==
    CASE v.t = "number" -> v
      [] v.t = "string" /\ v.s \in {"Infinity", "-Infinity"} ->
            [t |-> "number", n |-> v.n, s |-> v.s]
      [] v.t = "string" /\ v.s \notin {"", "NaN"} -> Num(v.n)
      [] OTHER -> NaN

\* v < k, v > k, v >= k, v <= k for a number v and a finite k: every
\* comparison with NaN is false
Lt(v, k) == IF v.s = "" THEN v.n < k ELSE v.s = "-Infinity"
Gt(v, k) == IF v.s = "" THEN v.n > k ELSE v.s = "Infinity"
Ge(v, k) == IF v.s = "" THEN v.n >= k ELSE v.s = "Infinity"
Le(v, k) == IF v.s = "" THEN v.n <= k ELSE v.s = "-Infinity"

Abs(x) == IF x < 0 THEN -x ELSE x

Digits2(k) == IF k < 10 THEN "0" \o ToString(k) ELSE ToString(k)

\* x.toFixed(2) for a finite number x of h hundredths
ToFixed2(h) ==
    (IF h < 0 THEN "-" ELSE "") \o ToString(Abs(h) \div 100) \o "." \o Digits2(Abs(h) % 100)

\* String(x) for a finite number x of h hundredths: no trailing zeros
NumberText(h) ==
    (IF h < 0 THEN "-" ELSE "") \o ToString(Abs(h) \div 100) \o
    (IF Abs(h) % 100 = 0 THEN ""
     ELSE IF Abs(h) % 10 = 0 THEN "." \o ToString((Abs(h) % 100) \div 10)
     ELSE "." \o Digits2(Abs(h) % 100))

\* `${v}` of a value in a template literal
Text(v) ==
    CASE v.t = "undefined" -> "undefined"
      [] v.t = "null" -> "null"
      [] v.t = "string" -> v.s
      [] v.t = "number" /\ v.s # "" -> v.s
      [] OTHER -> NumberText(v.n)

\* a / b rounded to the nearest integer, halves away from zero (b > 0)
RoundDiv(a, b) ==
    IF a < 0 THEN -((2 * (-a) + b) \div (2 * b)) ELSE (2 * a + b) \div (2 * b)

\* ((price - previousClose) / previousClose * 100).toFixed(2): a string, always.
\* A missing operand or 0/0 gives "NaN"; a small negative quotient gives "-0.00".
ChangePercentText(price, previousClose) ==
    IF ~IsNumber(price) \/ ~IsNumber(previousClose) THEN Str("NaN")
    ELSE IF previousClose.n = 0
    THEN (IF price.n = 0 THEN Str("NaN")
          ELSE IF price.n > 0 THEN NumStr(1, "Infinity") ELSE NumStr(-1, "-Infinity"))
    ELSE LET num == (price.n - previousClose.n) * 10000
             den == previousClose.n
             q == IF den > 0 THEN RoundDiv(num, den) ELSE RoundDiv(-num, -den)
             neg == (num < 0 /\ den > 0) \/ (num > 0 /\ den < 0)
         IN NumStr(q, (IF neg THEN "-" ELSE "") \o ToString(Abs(q) \div 100) \o "."
                       \o Digits2(Abs(q) % 100))

\* String.prototype.toUpperCase on a string kept as a sequence of characters
UpperChar(c) ==
    CASE c = "t" -> "T" [] c = "c" -> "C" [] c = "s" -> "S"
      [] c = "i" -> "I" [] c = "n" -> "N" [] c = "f" -> "F" [] c = "y" -> "Y"
      [] OTHER -> c
ToUpperCase(chars) == [i \in DOMAIN chars |-> UpperChar(chars[i])]

-----------------------------------------------------------------------------
(* The request body's symbol: a typeof tag, a number, and (for a string) *)
(* its characters *)

SymUndefined == [t |-> "undefined", n |-> 0, chars |-> <<>>]
SymStr(chars) == [t |-> "string", n |-> 0, chars |-> chars]
SymNum(x) == [t |-> "number", n |-> x, chars |-> <<>>]

\* !symbol is false
SymTruthy(sym) ==
    CASE sym.t = "string" -> sym.chars # <<>>
      [] sym.t = "number" -> sym.n # 0
      [] OTHER -> FALSE

\* symbol.toUpperCase is a function: only strings have the method
HasToUpperCase(sym) == sym.t = "string"

\* the symbols a client may post: missing, empty, two tickers, and a JSON number
Symbols ==
    { SymUndefined, SymStr(<<>>), SymStr(<<"t", "c", "s">>),
      SymStr(<<"I", "N", "F", "Y">>), SymNum(123) }

-----------------------------------------------------------------------------
(* What the three extractors store in this.data.sources *)

Extractors == {"yahoo_finance", "nse", "screener"}

NoYahoo == [current_price |-> Undefined, previous_close |-> Undefined,
            change_percent |-> Undefined]
NoNSE == [current_price |-> Undefined, change_percent |-> Undefined,
          pe_ratio |-> Undefined, company_name |-> Undefined]
NoScreener == [company_info |-> [name |-> Undefined, price |-> Undefined],
               ratios |-> [market_cap |-> Undefined, pe_ratio |-> Undefined,
                           roe |-> Undefined, book_value |-> Undefined]]

\* this.data.sources = {}: the keys in insertion order, and each key's value
\* (a key that is not set reads as an object whose fields are all undefined,
\* which is what the optional chaining sources.x?.field gives)
NoSources == [keys |-> <<>>, yahoo_finance |-> NoYahoo, nse |-> NoNSE,
              screener |-> NoScreener]

\* An axios reply: the request failed ("error"), timed out ("timeout"), came
\* back without the structure the extractor dereferences ("malformed"), or
\* came back with a body ("ok")
Failures == {"error", "timeout", "malformed"}

\* fetchYahooFinanceData, from the reply's chart.result[0].meta (change,
\* volume, currency and exchange, which no later step reads, are left out)
YahooData(meta) ==
    [current_price |-> meta.regularMarketPrice,
     previous_close |-> meta.previousClose,
     change_percent |-> ChangePercentText(meta.regularMarketPrice, meta.previousClose)]

\* fetchNSEData, from the reply's priceInfo, metadata and info (the fields
\* the merge reads; change, open, high, low, volume and market_cap are only
\* passed through in raw_data)
NSEData(body) ==
    [current_price |-> body.lastPrice,
     change_percent |-> body.pChange,
     pe_ratio |-> body.pdSectorPe,
     company_name |-> body.companyName]

\* scrapeScreener, from what the probes match on the page: the h1 text sets
\* the name only when it is not empty, every ratio only when its pattern matches
ScreenerData(page) ==
    [company_info |-> [name |-> IF Truthy(page.h1) THEN page.h1 ELSE Undefined,
                       price |-> page.price],
     ratios |-> [market_cap |-> page.market_cap, pe_ratio |-> page.pe_ratio,
                 roe |-> page.roe, book_value |-> page.book_value]]

\* a variant that assigns a fresh object: this.data.sources = { [key]: data }
SetSource_Replaces(srcs, key, data) ==
    [NoSources EXCEPT ![key] = data, !.keys = <<key>>]

\* this.data.sources[key] = data
SetSource(srcs, key, data) ==
    [srcs EXCEPT ![key] = data,
                 !.keys = IF \E i \in DOMAIN srcs.keys : srcs.keys[i] = key
                          THEN srcs.keys ELSE Append(srcs.keys, key)]

YahooReply(kind, price, previousClose) ==
    [kind |-> kind, regularMarketPrice |-> price, previousClose |-> previousClose]
NSEReply(kind, lastPrice, pChange, pe, name) ==
    [kind |-> kind, lastPrice |-> lastPrice, pChange |-> pChange,
     pdSectorPe |-> pe, companyName |-> name]
ScreenerReply(kind, h1, price, pe, roe, cap, book) ==
    [kind |-> kind, h1 |-> h1, price |-> price, pe_ratio |-> pe, roe |-> roe,
     market_cap |-> cap, book_value |-> book]

YahooFailed(kind) == YahooReply(kind, Undefined, Undefined)
NSEFailed(kind) == NSEReply(kind, Undefined, Undefined, Undefined, Undefined)
ScreenerFailed(kind) ==
    ScreenerReply(kind, Undefined, Undefined, Undefined, Undefined, Undefined, Undefined)

-----------------------------------------------------------------------------
(* Text helpers of the two summaries.  A multi-line string is kept as the  *)
(* sequence of its lines; the emoji that open the lines of generateSummary *)
(* are left out and the rupee sign is written Rs.                          *)

RECURSIVE CharsText(_)
CharsText(chars) == IF chars = <<>> THEN "" ELSE Head(chars) \o CharsText(Tail(chars))

Digits3(k) == IF k < 100 THEN "0" \o Digits2(k) ELSE ToString(k)

\* the lakh/crore groups left of the thousands group
RECURSIVE GroupTwos(_)
GroupTwos(k) ==
    IF k < 100 THEN ToString(k) ELSE GroupTwos(k \div 100) \o "," \o Digits2(k % 100)

\* x.toLocaleString('en-IN') for a finite number x of h hundredths
ToLocaleStringIN(h) ==
    LET whole == Abs(h) \div 100
        frac == Abs(h) % 100
    IN (IF h < 0 THEN "-" ELSE "") \o
       (IF whole < 1000 THEN ToString(whole)
        ELSE GroupTwos(whole \div 1000) \o "," \o Digits3(whole % 1000)) \o
       (IF frac = 0 THEN ""
        ELSE IF frac % 10 = 0 THEN "." \o ToString(frac \div 10)
        ELSE "." \o Digits2(frac))

Range(seq) == { seq[i] : i \in DOMAIN seq }

-----------------------------------------------------------------------------
(* getCombinedData: the per-field fallback chains *)

\* a variant that defaults a missing book value to 0
getCombinedData_DefaultsZero(srcs, stockSymbol) ==
    [current_price |->
        Or(Or(srcs.yahoo_finance.current_price, srcs.nse.current_price),
           srcs.screener.company_info.price),
     change_percent |->
        Or(srcs.yahoo_finance.change_percent, srcs.nse.change_percent),
     company_name |->
        Or(Or(srcs.nse.company_name, srcs.screener.company_info.name),
           Str(CharsText(stockSymbol))),
     market_cap |-> srcs.screener.ratios.market_cap,
     pe_ratio |-> Or(srcs.screener.ratios.pe_ratio, srcs.nse.pe_ratio),
     roe |-> srcs.screener.ratios.roe,
     book_value |-> Or(srcs.screener.ratios.book_value, Num(0))]

getCombinedData(srcs, stockSymbol) ==
    [current_price |->
        Or(Or(srcs.yahoo_finance.current_price, srcs.nse.current_price),
           srcs.screener.company_info.price),
     change_percent |->
        Or(srcs.yahoo_finance.change_percent, srcs.nse.change_percent),
     company_name |->
        Or(Or(srcs.nse.company_name, srcs.screener.company_info.name),
           Str(CharsText(stockSymbol))),
     market_cap |-> srcs.screener.ratios.market_cap,
     pe_ratio |-> Or(srcs.screener.ratios.pe_ratio, srcs.nse.pe_ratio),
     roe |-> srcs.screener.ratios.roe,
     book_value |-> srcs.screener.ratios.book_value]

\* this.data.combined_data = {}
NoCombined ==
    [current_price |-> Undefined, change_percent |-> Undefined,
     company_name |-> Undefined, market_cap |-> Undefined, pe_ratio |-> Undefined,
     roe |-> Undefined, book_value |-> Undefined]

-----------------------------------------------------------------------------
(* generateSummary *)

PE_CHEAP == 1500
PE_FAIR_MAX == 3000
PE_EXPENSIVE_MAX == 5000
RISK_LOW_PE == 2000
RISK_LOW_ROE == 1500
RISK_HIGH_PE == 5000

\* lines 311-314
SummaryValuation(pe) ==
    IF Lt(pe, PE_CHEAP) THEN "Cheap"
    ELSE IF Gt(pe, PE_FAIR_MAX) /\ Le(pe, PE_EXPENSIVE_MAX) THEN "Expensive"
    ELSE IF Gt(pe, PE_EXPENSIVE_MAX) THEN "Very Expensive"
    ELSE "Fair"

\* lines 330-337
SummaryRisk(data) ==
    IF Truthy(data.pe_ratio) /\ Truthy(data.roe)
       /\ IsNumber(data.pe_ratio) /\ IsNumber(data.roe)
    THEN (IF Lt(data.pe_ratio, RISK_LOW_PE) /\ Gt(data.roe, RISK_LOW_ROE) THEN "Low Risk"
          ELSE IF Gt(data.pe_ratio, RISK_HIGH_PE) THEN "High Risk"
          ELSE "Medium Risk")
    ELSE "Medium Risk"

generateSummary(data, stockSymbol) ==
    <<Text(Or(data.company_name, Str(CharsText(stockSymbol))))>>
    \o <<IF Truthy(data.current_price) /\ IsNumber(data.current_price)
         THEN "Current Price: Rs" \o ToFixed2(data.current_price.n)
         ELSE "Current Price: N/A">>
    \o (IF Truthy(data.change_percent)
        THEN <<"Today's Change: " \o Text(data.change_percent) \o "% "
               \o (IF Ge(ParseFloat(data.change_percent), 0) THEN "UP" ELSE "DOWN")>>
        ELSE <<>>)
    \o (IF Truthy(data.market_cap) /\ IsNumber(data.market_cap)
        THEN <<"Market Cap: Rs" \o ToLocaleStringIN(data.market_cap.n) \o " Cr">>
        ELSE <<>>)
    \o (IF Truthy(data.pe_ratio) /\ IsNumber(data.pe_ratio)
        THEN <<"P/E Ratio: " \o ToFixed2(data.pe_ratio.n)
               \o " (" \o SummaryValuation(data.pe_ratio) \o ")">>
        ELSE <<>>)
    \o (IF Truthy(data.roe) /\ IsNumber(data.roe)
        THEN <<"Return on Equity: " \o ToFixed2(data.roe.n) \o "%">>
        ELSE <<>>)
    \o (IF Truthy(data.book_value) /\ IsNumber(data.book_value)
        THEN <<"Book Value: Rs" \o ToFixed2(data.book_value.n)>>
        ELSE <<>>)
    \o <<"Risk Level: " \o SummaryRisk(data)>>

-----------------------------------------------------------------------------
(* generateBasicSummary, the prompt, getSourcesList *)

BASIC_CHEAP == 1500
BASIC_EXPENSIVE == 3000
BASIC_HIGH_PE == 5000
BASIC_LOW_PE == 2000
BASIC_GOOD_ROE == 1500
LARGE_CAP == 10000000
GOOD_SOURCES == 2

\* lines 425-430
BasicValuation(data) ==
    IF Truthy(data.pe_ratio) /\ IsNumber(data.pe_ratio)
    THEN (IF Lt(data.pe_ratio, BASIC_CHEAP) THEN "Cheap (Low P/E)"
          ELSE IF Gt(data.pe_ratio, BASIC_EXPENSIVE) THEN "Expensive (High P/E)"
          ELSE "Fair")
    ELSE "Fair"

\* lines 426-433
BasicRiskLevel(data) ==
    IF Truthy(data.pe_ratio) /\ IsNumber(data.pe_ratio)
    THEN (IF Gt(data.pe_ratio, BASIC_HIGH_PE) THEN "High"
          ELSE IF Lt(data.pe_ratio, BASIC_LOW_PE) THEN "Low-Moderate"
          ELSE "Moderate")
    ELSE "Moderate"

\* a variant without the placeholder of line 456
BasicStrengths_NoPlaceholder(data) ==
    (IF Truthy(data.roe) /\ IsNumber(data.roe) /\ Gt(data.roe, BASIC_GOOD_ROE)
     THEN <<"Good ROE indicating profitability">> ELSE <<>>)
    \o (IF Truthy(data.market_cap) /\ IsNumber(data.market_cap)
           /\ Gt(data.market_cap, LARGE_CAP)
        THEN <<"Large-cap stock, stable">> ELSE <<>>)
    \o (IF Truthy(data.change_percent) /\ Gt(ParseFloat(data.change_percent), 0)
        THEN <<"Positive price momentum">> ELSE <<>>)

\* lines 436-456, the strengths in the order they are pushed
BasicStrengths(data) ==
    LET found ==
          (IF Truthy(data.roe) /\ IsNumber(data.roe) /\ Gt(data.roe, BASIC_GOOD_ROE)
           THEN <<"Good ROE indicating profitability">> ELSE <<>>)
          \o (IF Truthy(data.market_cap) /\ IsNumber(data.market_cap)
                 /\ Gt(data.market_cap, LARGE_CAP)
              THEN <<"Large-cap stock, stable">> ELSE <<>>)
          \o (IF Truthy(data.change_percent) /\ Gt(ParseFloat(data.change_percent), 0)
              THEN <<"Positive price momentum">> ELSE <<>>)
    IN IF Len(found) = 0 THEN <<"Data limited for full analysis">> ELSE found

\* lines 437-457, the concerns in the order they are pushed
BasicConcerns(data) ==
    LET found ==
          (IF Truthy(data.roe) /\ IsNumber(data.roe) /\ ~Gt(data.roe, BASIC_GOOD_ROE)
           THEN <<"Low ROE, profitability concerns">> ELSE <<>>)
          \o (IF Truthy(data.change_percent) /\ ~Gt(ParseFloat(data.change_percent), 0)
              THEN <<"Recent price decline">> ELSE <<>>)
    IN IF Len(found) = 0 THEN <<"Limited historical data available">> ELSE found

Bullets(items) == [i \in DOMAIN items |-> "* " \o items[i]]

generateBasicSummary(data, stockSymbol, sourcesCount) ==
    <<"Stock: " \o Text(data.company_name) \o " (" \o CharsText(stockSymbol) \o ")",
      "Current Price: "
        \o (IF Truthy(data.current_price) /\ IsNumber(data.current_price)
            THEN "Rs" \o ToFixed2(data.current_price.n) ELSE "N/A")
        \o "  |  Change: " \o Text(Or(data.change_percent, Str("N/A"))) \o "%",
      "Valuation: " \o BasicValuation(data),
      "Risk Level: " \o BasicRiskLevel(data),
      "Strengths:">>
    \o Bullets(BasicStrengths(data))
    \o <<"Concerns:">>
    \o Bullets(BasicConcerns(data))
    \o <<"Data Reliability: " \o (IF sourcesCount >= GOOD_SOURCES THEN "Good" ELSE "Fair")
         \o " (" \o ToString(sourcesCount) \o " Sources Verified)">>

\* the interpolated lines of the prompt (lines 349-350 and 362-369); the fixed
\* instructions around them are the same in every request
Prompt(data, stockSymbol) ==
    <<"Stock: " \o Text(data.company_name) \o " (" \o CharsText(stockSymbol) \o ")",
      "Current Price: Rs" \o Text(Or(data.current_price, Str("N/A")))
        \o "  |  Change: " \o Text(Or(data.change_percent, Str("N/A"))) \o "%",
      "- Stock Symbol: " \o CharsText(stockSymbol),
      "- Company Name: " \o Text(Or(data.company_name, Str("N/A"))),
      "- Current Price: Rs" \o Text(Or(data.current_price, Str("N/A"))),
      "- Price Change: " \o Text(Or(data.change_percent, Str("N/A"))) \o "%",
      "- P/E Ratio: " \o Text(Or(data.pe_ratio, Str("N/A"))),
      "- Return on Equity (ROE): " \o Text(Or(data.roe, Str("N/A"))) \o "%",
      "- Market Cap: Rs" \o Text(Or(data.market_cap, Str("N/A"))) \o " Cr",
      "- Book Value: Rs" \o Text(Or(data.book_value, Str("N/A")))>>

sourceNames(key) ==
    CASE key = "yahoo_finance" -> "Yahoo Finance"
      [] key = "nse" -> "NSE India"
      [] key = "screener" -> "Screener.in"
      [] key = "moneycontrol" -> "MoneyControl"
      [] OTHER -> key

\* a variant that maps the keys of the name table instead of the stored keys
getSourcesList_AllNames(srcs) == <<"Yahoo Finance", "NSE India", "Screener.in">>

\* Object.keys(this.data.sources).map(...)
getSourcesList(srcs) == [i \in DOMAIN srcs.keys |-> sourceNames(srcs.keys[i])]

-----------------------------------------------------------------------------
(* The state of one POST /api/analyze request *)

VARIABLES
    OPENAI_API_KEY,  \* process.env.OPENAI_API_KEY
    pc,              \* where the handler is: "idle", "scraping", "enriching", "done"
    symbol,          \* req.body.symbol
    constructed,     \* new ImprovedStockScraper(symbol) returned
    stockSymbol,     \* this.stockSymbol
    sources,         \* this.data.sources
    combined_data,   \* this.data.combined_data
    summary,         \* this.data.summary, as lines
    promises,        \* the three extractor promises: "none", "pending", "data", "null"
    calls,           \* axios requests issued so far, per endpoint
    completion,      \* the axios.post of generateFinalSummary: none, pending, its reply
    res,             \* the HTTP response sent
    parked,          \* a second request whose callbacks are not the one running
    running          \* which of the two requests the variables above belong to

vars == <<OPENAI_API_KEY, pc, symbol, constructed, stockSymbol, sources,
          combined_data, summary, promises, calls, completion, res,
          parked, running>>

Endpoints == Extractors \cup {"openai"}

\* a multi-line string value: a string of lines, null or undefined
TextValue(lines) == [t |-> "string", lines |-> lines]
NoText == [t |-> "undefined", lines |-> <<>>]
NullText == [t |-> "null", lines |-> <<>>]

NoResponse ==
    [status |-> 0, success |-> FALSE, error |-> "", symbol |-> <<>>,
     summary |-> <<>>, final_summary |-> NoText, ai_prompt |-> <<>>,
     ai_model |-> "", ai_error |-> Null, sources |-> <<>>,
     raw_data |-> NoSources, combined_data |-> NoCombined]

SYMBOL_REQUIRED == "Stock symbol is required"
ALL_SOURCES_FAILED ==
    "Unable to fetch data from any source. Stock symbol might be invalid or services are unavailable."
NOT_A_FUNCTION == "stockSymbol.toUpperCase is not a function"
KEY_NOT_CONFIGURED == "OpenAI API key not configured"

\* res.status(code).json({ success: false, error: message })
ErrorResponse(code, message) ==
    [NoResponse EXCEPT !.status = code, !.error = message]

\* what the axios.post of line 390 may come back with: a completion, a
\* completion whose content is null, a body without choices (the read of
\* line 406 throws), a rejected request, a timeout, an error without message
EnrichReply(kind, content, message) ==
    [kind |-> kind, content |-> content, message |-> message]

NoCompletion == EnrichReply("none", NoText, "")
PendingCompletion == EnrichReply("pending", NoText, "")

EnrichReplies ==
    { EnrichReply("ok", TextValue(<<"Stock: TCS", "Valuation: Fair (as told)">>), ""),
      EnrichReply("ok", NullText, ""),
      EnrichReply("malformed", NoText,
                  "Cannot read properties of undefined (reading '0')"),
      EnrichReply("error", NoText, "Request failed with status code 401"),
      EnrichReply("timeout", NoText, "timeout of 15000ms exceeded"),
      EnrichReply("error", NoText, "") }

\* the keys a deployment may have: none, an empty variable, a key
ApiKeys == { Undefined, Str(""), Str("sk-test") }

\* a request that has not arrived: the locals of the handler of line 490
\* and the scraper object it will construct
IdleRequest ==
    [pc |-> "idle", symbol |-> SymUndefined, constructed |-> FALSE,
     stockSymbol |-> <<>>, sources |-> NoSources, combined_data |-> NoCombined,
     summary |-> <<>>, promises |-> [e \in Extractors |-> "none"],
     calls |-> [e \in Endpoints |-> 0], completion |-> NoCompletion,
     res |-> NoResponse]

Init ==
    /\ parked = IdleRequest
    /\ running = 1
    /\ OPENAI_API_KEY \in ApiKeys
    /\ pc = "idle"
    /\ symbol = SymUndefined
    /\ constructed = FALSE
    /\ stockSymbol = <<>>
    /\ sources = NoSources
    /\ combined_data = NoCombined
    /\ summary = <<>>
    /\ promises = [e \in Extractors |-> "none"]
    /\ calls = [e \in Endpoints |-> 0]
    /\ completion = NoCompletion
    /\ res = NoResponse

\* a variant that tests symbol === undefined only
SymbolRejected_MissingOnly(sym) == sym.t = "undefined"

\* the validation of line 494: the request is rejected
SymbolRejected(sym) == ~SymTruthy(sym)

\* Promise.allSettled([...]) of line 228: the three calls are made, each
\* issuing its axios.get, before the first await
LaunchAll == [e \in Extractors |-> "pending"]

\* lines 490-504: validate, construct the scraper, start scrapeAllSources
analyze(sym) ==
    /\ pc = "idle"
    /\ symbol' = sym
    /\ IF SymbolRejected(sym)
       THEN /\ res' = ErrorResponse(400, SYMBOL_REQUIRED)
            /\ pc' = "done"
            /\ UNCHANGED <<constructed, stockSymbol, sources, combined_data, summary,
                           promises, calls>>
       ELSE IF ~HasToUpperCase(sym)
       THEN \* the constructor throws at line 36; the handler's catch answers
            /\ res' = ErrorResponse(500, NOT_A_FUNCTION)
            /\ pc' = "done"
            /\ UNCHANGED <<constructed, stockSymbol, sources, combined_data, summary,
                           promises, calls>>
       ELSE /\ constructed' = TRUE
            /\ stockSymbol' = ToUpperCase(sym.chars)
            /\ sources' = NoSources
            /\ combined_data' = NoCombined
            /\ summary' = <<>>
            /\ promises' = LaunchAll
            /\ calls' = [e \in Endpoints |->
                            IF e \in Extractors /\ LaunchAll[e] = "pending"
                            THEN calls[e] + 1 ELSE calls[e]]
            /\ pc' = "scraping"
            /\ UNCHANGED res
    /\ UNCHANGED <<OPENAI_API_KEY, completion, parked, running>>

\* a variant whose catch issues the request once more instead of returning null
Settle_Retries(key, ok, data) ==
    /\ pc = "scraping"
    /\ promises[key] = "pending"
    /\ IF ok
       THEN /\ sources' = SetSource(sources, key, data)
            /\ promises' = [promises EXCEPT ![key] = "data"]
            /\ UNCHANGED calls
       ELSE IF calls[key] < 2
       THEN /\ calls' = [calls EXCEPT ![key] = @ + 1]
            /\ UNCHANGED <<sources, promises>>
       ELSE /\ promises' = [promises EXCEPT ![key] = "null"]
            /\ UNCHANGED <<sources, calls>>
    /\ UNCHANGED <<OPENAI_API_KEY, pc, symbol, constructed, stockSymbol,
                   combined_data, summary, completion, res, parked, running>>

\* an extractor's continuation once its axios.get settles: on a body it can
\* read it stores the data and returns it, otherwise its catch returns null
Settle(key, ok, data) ==
    /\ pc = "scraping"
    /\ promises[key] = "pending"
    /\ IF ok
       THEN /\ sources' = SetSource(sources, key, data)
            /\ promises' = [promises EXCEPT ![key] = "data"]
       ELSE /\ promises' = [promises EXCEPT ![key] = "null"]
            /\ UNCHANGED sources
    /\ UNCHANGED <<OPENAI_API_KEY, pc, symbol, constructed, stockSymbol,
                   combined_data, summary, calls, completion, res, parked, running>>


\* the replies each source is given in the request model
YahooReplies ==
    { YahooFailed(k) : k \in Failures }
    \cup { YahooReply("ok", Num(10000), Num(10000)),
           YahooReply("ok", Num(11000), Num(10000)) }

NSEReplies ==
    { NSEFailed(k) : k \in Failures }
    \cup { NSEReply("ok", Num(10500), Num(-250), Num(2500),
                    Str("Tata Consultancy Services Limited")),
           NSEReply("ok", Undefined, Undefined, Undefined, Undefined) }

ScreenerReplies ==
    { ScreenerFailed(k) : k \in Failures }
    \cup { ScreenerReply("ok", Str("Tata Consultancy Services Ltd"), Num(10400),
                         Num(1000), Num(2000), Num(20000000), Num(5000)),
           ScreenerReply("ok", Str("Infosys Ltd"), Undefined,
                         Num(6000), Num(1000), Num(5000000), Undefined),
           ScreenerReply("ok", Str(""), Undefined, Undefined, Undefined,
                         Undefined, Undefined) }

\* lines 47-80
fetchYahooFinanceData ==
    \E reply \in YahooReplies :
        Settle("yahoo_finance", reply.kind = "ok", YahooData(reply))

\* lines 83-118
fetchNSEData ==
    \E reply \in NSEReplies : Settle("nse", reply.kind = "ok", NSEData(reply))

\* lines 121-201
scrapeScreener ==
    \E reply \in ScreenerReplies :
        Settle("screener", reply.kind = "ok", ScreenerData(reply))

\* a variant that resumes on the first promise to settle
AllSettled_Any(ps) == \E e \in Extractors : ps[e] \in {"data", "null"}

\* Promise.allSettled resolves: no promise is pending any more
AllSettled(ps) == \A e \in Extractors : ps[e] \in {"data", "null"}

\* a variant that drops the test r.value !== null
successCount_Fulfilled(ps) == Cardinality({ e \in Extractors : ps[e] \in {"data", "null"} })

\* line 237: fulfilled with a value that is not null
successCount(ps) == Cardinality({ e \in Extractors : ps[e] = "data" })

\* what generateFinalSummary returns
FinalSummary(text, prompt, model, error) ==
    [summary |-> text, prompt |-> prompt, model |-> model, error |-> error]

\* lines 382-388 and 414-420: the basic summary with the reason
Fallback(data, reason) ==
    FinalSummary(TextValue(generateBasicSummary(data, stockSymbol, Len(sources.keys))),
                 Prompt(data, stockSymbol), Undefined, reason)

\* lines 508-520, sent by res.json
SuccessResponse(shown, data, final) ==
    [status |-> 200, success |-> TRUE, error |-> "",
     symbol |-> ToUpperCase(symbol.chars),
     summary |-> shown,
     final_summary |-> final.summary,
     ai_prompt |-> final.prompt,
     ai_model |-> Text(Or(final.model, Str("basic"))),
     ai_error |-> Or(final.error, Null),
     sources |-> getSourcesList(sources),
     raw_data |-> sources,
     combined_data |-> data]

\* the handler resumes after await scraper.scrapeAllSources() (lines 234-241,
\* 505-506): all failed throws into the catch; otherwise generateSummary and
\* generateFinalSummary run up to the key test or the axios.post
scrapeAllSources ==
    /\ pc = "scraping"
    /\ AllSettled(promises)
    /\ IF successCount(promises) = 0
       THEN /\ res' = ErrorResponse(500, ALL_SOURCES_FAILED)
            /\ pc' = "done"
            /\ UNCHANGED <<combined_data, summary, calls, completion>>
       ELSE LET data == getCombinedData(sources, stockSymbol)
                shown == generateSummary(data, stockSymbol)
            IN /\ combined_data' = data
               /\ summary' = shown
               /\ IF ~Truthy(OPENAI_API_KEY)
                  THEN /\ res' = SuccessResponse(shown, data,
                                                Fallback(data, Str(KEY_NOT_CONFIGURED)))
                       /\ pc' = "done"
                       /\ UNCHANGED <<calls, completion>>
                  ELSE /\ calls' = [calls EXCEPT !["openai"] = @ + 1]
                       /\ completion' = PendingCompletion
                       /\ pc' = "enriching"
                       /\ UNCHANGED res
    /\ UNCHANGED <<OPENAI_API_KEY, symbol, constructed, stockSymbol, sources, promises,
                   parked, running>>

\* a variant whose catch lets the error reach the handler's catch
generateFinalSummary_Rethrows ==
    /\ pc = "enriching"
    /\ \E reply \in EnrichReplies :
         /\ completion' = reply
         /\ res' = IF reply.kind = "ok"
                   THEN SuccessResponse(summary, combined_data,
                            FinalSummary(reply.content, Prompt(combined_data, stockSymbol),
                                         Str("gpt-3.5-turbo"), Undefined))
                   ELSE ErrorResponse(500, reply.message)
    /\ pc' = "done"
    /\ UNCHANGED <<OPENAI_API_KEY, symbol, constructed, stockSymbol, sources,
                   combined_data, summary, promises, calls, parked, running>>

\* generateFinalSummary resumes after the axios.post settles (lines 406-420)
\* and the handler answers (lines 508-525)
generateFinalSummary ==
    /\ pc = "enriching"
    /\ \E reply \in EnrichReplies :
         LET final == IF reply.kind = "ok"
                      THEN FinalSummary(reply.content, Prompt(combined_data, stockSymbol),
                                        Str("gpt-3.5-turbo"), Undefined)
                      ELSE Fallback(combined_data, Str(reply.message))
         IN /\ completion' = reply
            /\ res' = SuccessResponse(summary, combined_data, final)
    /\ pc' = "done"
    /\ UNCHANGED <<OPENAI_API_KEY, symbol, constructed, stockSymbol, sources,
                   combined_data, summary, promises, calls, parked, running>>

Next ==
    \/ \E sym \in Symbols : analyze(sym)
    \/ fetchYahooFinanceData
    \/ fetchNSEData
    \/ scrapeScreener
    \/ scrapeAllSources
    \/ generateFinalSummary

Spec == Init /\ [][Next]_vars

-----------------------------------------------------------------------------
(* The merge and the two renderers over wider data.  These specifications   *)
(* start where every extractor of a request for "tcs" has settled, with the *)
(* replies drawn from the sets below, on a deployment without a key; their  *)
(* one step is the handler's continuation, scrapeAllSources.                *)

Delta == 1

\* the values within Delta hundredths of a threshold
Near(threshold) == { threshold + d : d \in -Delta..Delta }

Stored(srcs, key, ok, data) == IF ok THEN SetSource(srcs, key, data) ELSE srcs

SettledAs(ok) == IF ok THEN "data" ELSE "null"

InitSettled(yahoo, nse, screener) ==
    /\ parked = IdleRequest
    /\ running = 1
    /\ OPENAI_API_KEY = Undefined
    /\ pc = "scraping"
    /\ symbol = SymStr(<<"t", "c", "s">>)
    /\ constructed = TRUE
    /\ stockSymbol = ToUpperCase(<<"t", "c", "s">>)
    /\ sources =
          Stored(Stored(Stored(NoSources,
                               "yahoo_finance", yahoo.kind = "ok", YahooData(yahoo)),
                        "nse", nse.kind = "ok", NSEData(nse)),
                 "screener", screener.kind = "ok", ScreenerData(screener))
    /\ combined_data = NoCombined
    /\ summary = <<>>
    /\ promises = [e \in Extractors |->
                      CASE e = "yahoo_finance" -> SettledAs(yahoo.kind = "ok")
                        [] e = "nse" -> SettledAs(nse.kind = "ok")
                        [] e = "screener" -> SettledAs(screener.kind = "ok")]
    /\ calls = [e \in Endpoints |-> IF e \in Extractors THEN 1 ELSE 0]
    /\ completion = NoCompletion
    /\ res = NoResponse

NextSettled == scrapeAllSources

\* replies that exercise the fallback chains: each field absent, zero and
\* set, in each source that carries it
MergeYahooReplies ==
    { YahooFailed("error"),
      YahooReply("ok", Undefined, Undefined),
      YahooReply("ok", Num(0), Num(10000)),
      YahooReply("ok", Num(9000), Num(10000)),
      YahooReply("ok", Num(10000), Num(10000)),
      YahooReply("ok", Num(11000), Num(10000)),
      YahooReply("ok", Num(1000000), Num(1000001)) }

MergeNSEReplies ==
    { NSEFailed("timeout") }
    \cup { NSEReply("ok", price, change, pe, name) :
             price \in {Undefined, Num(0), Num(10500)},
             change \in {Undefined, Num(0), Num(-250), Num(250)},
             pe \in {Undefined, Num(0), Num(2500)},
             name \in {Undefined, Str("Tata Consultancy Services Limited")} }

MergeScreenerReplies ==
    { ScreenerFailed("malformed") }
    \cup { ScreenerReply("ok", h1, price, pe, rest[1], rest[2], rest[3]) :
             h1 \in {Str(""), Str("Tata Consultancy Services Ltd")},
             price \in {Undefined, Num(0), Num(10400)},
             pe \in {Undefined, Num(0), Num(1000)},
             rest \in { <<Undefined, Undefined, Undefined>>,
                        <<Num(2000), Num(20000000), Num(5000)>> } }

InitMerge ==
    \E yahoo \in MergeYahooReplies, nse \in MergeNSEReplies,
       screener \in MergeScreenerReplies : InitSettled(yahoo, nse, screener)

SpecMerge == InitMerge /\ [][NextSettled]_vars

\* replies that exercise the thresholds of the two classifiers: P/E ratios,
\* ROE and market cap on and around every threshold, zero, and absent
PERatios ==
    {0, 1000, 6000} \cup Near(PE_CHEAP) \cup Near(RISK_LOW_PE)
    \cup Near(PE_FAIR_MAX) \cup Near(PE_EXPENSIVE_MAX)
ROEs == {0, 2000} \cup Near(RISK_LOW_ROE)
MarketCaps == Near(LARGE_CAP)

ClassifyYahooReplies ==
    { YahooFailed("timeout"),
      YahooReply("ok", Num(9000), Num(10000)),
      YahooReply("ok", Num(10000), Num(10000)),
      YahooReply("ok", Num(11000), Num(10000)) }

ClassifyNSEReplies ==
    { NSEFailed("error") }
    \cup { NSEReply("ok", Undefined, Undefined, pe, Undefined) :
             pe \in {Undefined, Num(0), Num(-500), Num(2500)} }

ClassifyScreenerReplies ==
    { ScreenerFailed("error") }
    \cup { ScreenerReply("ok", Str("Tata Consultancy Services Ltd"), Undefined,
                         pe, roe, cap, Undefined) :
             pe \in {Undefined} \cup { Num(r) : r \in PERatios },
             roe \in {Undefined} \cup { Num(r) : r \in ROEs },
             cap \in {Undefined} \cup { Num(c) : c \in MarketCaps } }

InitClassify ==
    \E yahoo \in ClassifyYahooReplies, nse \in ClassifyNSEReplies,
       screener \in ClassifyScreenerReplies : InitSettled(yahoo, nse, screener)

SpecClassify == InitClassify /\ [][NextSettled]_vars

-----------------------------------------------------------------------------
(* Two requests in one process.  The handler of line 490 keeps everything   *)
(* in its locals and in the scraper it constructs at line 503; Node runs    *)
(* one callback at a time, so the two requests' steps interleave at every   *)
(* await.  The variables hold the request whose callback runs, parked holds *)
(* the other one, and the event loop moves from one to the other.           *)

\* the locals of the handler and the scraper object of the running request
RequestState ==
    [pc |-> pc, symbol |-> symbol, constructed |-> constructed,
     stockSymbol |-> stockSymbol, sources |-> sources,
     combined_data |-> combined_data, summary |-> summary, promises |-> promises,
     calls |-> calls, completion |-> completion, res |-> res]

\* a variant where scraper is one module-level variable
Resume_ModuleScraper(saved) ==
    /\ pc' = saved.pc
    /\ symbol' = saved.symbol
    /\ constructed' = saved.constructed
    /\ promises' = saved.promises
    /\ calls' = saved.calls
    /\ completion' = saved.completion
    /\ res' = saved.res
    /\ UNCHANGED <<stockSymbol, sources, combined_data, summary>>

\* a callback of the other request runs: it sees its own req, res and
\* const scraper (lines 490-503), nothing of the request that ran before
Resume(saved) ==
    /\ pc' = saved.pc
    /\ symbol' = saved.symbol
    /\ constructed' = saved.constructed
    /\ stockSymbol' = saved.stockSymbol
    /\ sources' = saved.sources
    /\ combined_data' = saved.combined_data
    /\ summary' = saved.summary
    /\ promises' = saved.promises
    /\ calls' = saved.calls
    /\ completion' = saved.completion
    /\ res' = saved.res

\* the event loop turns to the other request
dispatch ==
    /\ parked' = RequestState
    /\ running' = 3 - running
    /\ Resume(parked)
    /\ UNCHANGED OPENAI_API_KEY

TCS == <<"T", "C", "S">>

\* what the three services answer about a symbol (the symbol is part of the
\* URL of lines 49-52, 85 and 123): one body per symbol
YahooQuote(ticker) ==
    IF ticker = TCS THEN YahooReply("ok", Num(11000), Num(10000))
    ELSE YahooReply("ok", Num(15000), Num(16000))
NSEQuote(ticker) ==
    IF ticker = TCS
    THEN NSEReply("ok", Num(10500), Num(-250), Num(2500),
                  Str("Tata Consultancy Services Limited"))
    ELSE NSEReply("ok", Num(15100), Num(120), Num(2800), Str("Infosys Limited"))
ScreenerPage(ticker) ==
    IF ticker = TCS
    THEN ScreenerReply("ok", Str("Tata Consultancy Services Ltd"), Num(10400),
                       Num(1000), Num(2000), Num(20000000), Num(5000))
    ELSE ScreenerReply("ok", Str("Infosys Ltd"), Undefined,
                       Num(6000), Num(1000), Num(5000000), Undefined)

\* each extractor's axios.get comes back with the body for the symbol, or fails
yahooAnswers ==
    \E ok \in BOOLEAN : Settle("yahoo_finance", ok, YahooData(YahooQuote(stockSymbol)))
nseAnswers ==
    \E ok \in BOOLEAN : Settle("nse", ok, NSEData(NSEQuote(stockSymbol)))
screenerAnswers ==
    \E ok \in BOOLEAN : Settle("screener", ok, ScreenerData(ScreenerPage(stockSymbol)))

TwoSymbols == { SymStr(<<"t", "c", "s">>), SymStr(<<"I", "N", "F", "Y">>) }

InitTwo == Init /\ OPENAI_API_KEY \in { Undefined, Str("sk-test") }

NextTwo ==
    \/ \E sym \in TwoSymbols : analyze(sym)
    \/ yahooAnswers
    \/ nseAnswers
    \/ screenerAnswers
    \/ scrapeAllSources
    \/ generateFinalSummary
    \/ dispatch

SpecTwo == InitTwo /\ [][NextTwo]_vars

-----------------------------------------------------------------------------
(* Properties of one request *)

Succeeded == { e \in Extractors : promises[e] = "data" }
NonePending == \A e \in Extractors : promises[e] \in {"data", "null"}
EmptyOrMissing(sym) == sym.t = "undefined" \/ (sym.t = "string" /\ sym.chars = <<>>)

RiskLines == { "Risk Level: Low Risk", "Risk Level: Medium Risk", "Risk Level: High Risk" }

IsReport(r) ==
    /\ r.status = 200
    /\ r.success
    /\ \E i \in DOMAIN r.summary : r.summary[i] \in RiskLines
IsInvalidSymbol(r) == r = ErrorResponse(400, SYMBOL_REQUIRED)
IsAllSourcesFailed(r) == r = ErrorResponse(500, ALL_SOURCES_FAILED)

\* C1: every answered request is a Report whose deterministic summary has a
\* risk line, the InvalidSymbol rejection of an empty or missing symbol, or
\* the AllSourcesFailed failure, whatever symbol was posted
C1_ReportOrOneOfTwoFailures ==
    pc = "done" =>
        \/ IsReport(res)
        \/ IsInvalidSymbol(res) /\ EmptyOrMissing(symbol)
        \/ IsAllSourcesFailed(res)

ClaimedName(e) ==
    CASE e = "yahoo_finance" -> "Yahoo Finance"
      [] e = "nse" -> "NSE India"
      [] e = "screener" -> "Screener.in"

\* C3: when a non-empty proper subset of the extractors succeeded, the answer
\* is a successful report whose sources are exactly their names, each once
C3_PartialTolerance ==
    (pc = "done" /\ Succeeded # {} /\ Succeeded # Extractors) =>
        /\ res.status = 200
        /\ res.success
        /\ Range(res.sources) = { ClaimedName(e) : e \in Succeeded }
        /\ Len(res.sources) = Cardinality(Succeeded)

C3_Witness ==
    /\ pc = "done"
    /\ Succeeded = {"yahoo_finance", "screener"}
    /\ promises["nse"] = "null"
    /\ res.sources = <<"Screener.in", "Yahoo Finance">>

\* C4: when every extractor failed the request fails with AllSourcesFailed,
\* no summary of either kind is produced or returned and no enrichment call
\* is made; and AllSourcesFailed is answered only when every extractor failed
C4_TotalFailure ==
    /\ (\A e \in Extractors : promises[e] = "null") =>
          /\ summary = <<>>
          /\ combined_data = NoCombined
          /\ calls["openai"] = 0
          /\ completion = NoCompletion
          /\ pc = "done" => IsAllSourcesFailed(res)
    /\ res.error = ALL_SOURCES_FAILED => \A e \in Extractors : promises[e] = "null"

C4_Witness ==
    /\ pc = "done"
    /\ \A e \in Extractors : promises[e] = "null"
    /\ res.status = 500
    /\ res.final_summary = NoText

\* C5: the three extractors are launched together, and merging, rendering,
\* enrichment and the answer start only when none of them is pending, in
\* whatever order they settle and however early one of them fails
C5_FanOutJoin ==
    /\ pc = "scraping" =>
          \A e \in Extractors : promises[e] # "none" /\ calls[e] = 1
    /\ (\/ combined_data # NoCombined
        \/ summary # <<>>
        \/ calls["openai"] > 0
        \/ completion # NoCompletion
        \/ pc = "enriching"
        \/ pc = "done" /\ constructed) => NonePending

\* one extractor has failed and the handler still waits for the other two
C5_Witness ==
    /\ pc = "scraping"
    /\ promises["yahoo_finance"] = "null"
    /\ promises["nse"] = "pending"
    /\ promises["screener"] = "pending"
    /\ summary = <<>>
    /\ res = NoResponse

EnrichmentFailed == completion.kind \in {"error", "timeout"}

\* C6: when the enrichment call fails, with any message, or no key is
\* configured, the report's final summary is the fixed-template summary of
\* the merged record and a non-empty failure reason is attached
C6_EnrichmentFallback ==
    (pc = "done" /\ res.success /\ (EnrichmentFailed \/ ~Truthy(OPENAI_API_KEY))) =>
        /\ res.final_summary =
              TextValue(generateBasicSummary(res.combined_data, stockSymbol,
                                             Len(res.sources)))
        /\ res.ai_error.t = "string"
        /\ res.ai_error.s # ""

\* C7: with at least one extractor succeeded the answer is a successful
\* report whatever the enrichment call came back with, and without a key no
\* enrichment call is issued
C7_EnrichmentNonFatal ==
    /\ (pc = "done" /\ Succeeded # {}) => IsReport(res)
    /\ ~Truthy(OPENAI_API_KEY) => calls["openai"] = 0 /\ completion = NoCompletion

C7_Witness ==
    /\ pc = "done"
    /\ Succeeded # {}
    /\ completion.kind = "malformed"
    /\ res.success
    /\ res.ai_model = "basic"

\* C8: an empty or missing symbol is answered with InvalidSymbol and at no
\* point of such a request is an extractor or enrichment call issued or a
\* scraper constructed
C8_RejectedBeforeAnyFetch ==
    EmptyOrMissing(symbol) =>
        /\ \A e \in Endpoints : calls[e] = 0
        /\ \A e \in Extractors : promises[e] = "none"
        /\ ~constructed
        /\ sources = NoSources
        /\ completion = NoCompletion
        /\ pc = "done" => IsInvalidSymbol(res)

C8_Witness ==
    /\ pc = "done"
    /\ symbol = SymStr(<<>>)
    /\ res.status = 400
    /\ res.error = SYMBOL_REQUIRED

-----------------------------------------------------------------------------
(* Properties of the merge and of the classifiers *)

Present(v) == v.t # "undefined"

\* where both the higher and the lower source have the field, the merged
\* field is the higher source's
Prefers(higher, lower, merged) == (Present(higher) /\ Present(lower)) => merged = higher

\* C2: price prefers Yahoo to NSE to Screener, change percent Yahoo to NSE,
\* P/E Screener to NSE, company name NSE to Screener: when both sources of a
\* pair supplied the field, the merged field is the higher one's value,
\* zero included
C2_ReconciliationPriority ==
    (pc = "done" /\ res.success) =>
        LET y == sources.yahoo_finance
            n == sources.nse
            s == sources.screener
            m == res.combined_data
        IN /\ Prefers(y.current_price, n.current_price, m.current_price)
           /\ Prefers(y.current_price, s.company_info.price, m.current_price)
           /\ Prefers(n.current_price, s.company_info.price, m.current_price)
                 \/ Present(y.current_price)
           /\ Prefers(y.change_percent, n.change_percent, m.change_percent)
           /\ Prefers(s.ratios.pe_ratio, n.pe_ratio, m.pe_ratio)
           /\ Prefers(n.company_name, s.company_info.name, m.company_name)

ClaimedTier(r) ==
    IF r < 1500 THEN "Cheap"
    ELSE IF r <= 3000 THEN "Fair"
    ELSE IF r <= 5000 THEN "Expensive"
    ELSE "Very Expensive"

\* C9: for every resolved P/E ratio r the deterministic summary reports the
\* tier Cheap for r < 15, Fair for 15 <= r <= 30, Expensive for 30 < r <= 50
\* and Very Expensive for r > 50
C9_ValuationTiers ==
    (pc = "done" /\ res.success /\ res.combined_data.pe_ratio.t = "number") =>
        LET r == res.combined_data.pe_ratio.n
        IN ("P/E Ratio: " \o ToFixed2(r) \o " (" \o ClaimedTier(r) \o ")")
              \in Range(res.summary)

ClaimedRisk(ratio, roe) ==
    IF ratio > 5000 THEN "High Risk"
    ELSE IF ratio < 2000 /\ roe > 1500 THEN "Low Risk"
    ELSE "Medium Risk"

\* C10: with P/E ratio and ROE both resolved the risk line is Low for
\* ratio < 20 and ROE > 15, High for ratio > 50 whatever the ROE, Medium
\* otherwise, and never Low while the ratio is above 50
C10_RiskTieBreak ==
    (/\ pc = "done"
     /\ res.success
     /\ res.combined_data.pe_ratio.t = "number"
     /\ res.combined_data.roe.t = "number") =>
        LET ratio == res.combined_data.pe_ratio.n
            roe == res.combined_data.roe.n
        IN /\ ("Risk Level: " \o ClaimedRisk(ratio, roe)) \in Range(res.summary)
           /\ ratio > 5000 => "Risk Level: Low Risk" \notin Range(res.summary)

-----------------------------------------------------------------------------
(* Properties of the fallback report *)

\* the answer carries the text of generateBasicSummary
UsesFallback == pc = "done" /\ res.success /\ res.ai_model = "basic"

IndexOf(lines, text) == CHOOSE i \in DOMAIN lines : lines[i] = text

\* the entries between "Strengths:" and "Concerns:", and between "Concerns:"
\* and the closing reliability line, without their bullets' order
StrengthEntries(lines) ==
    SubSeq(lines, IndexOf(lines, "Strengths:") + 1, IndexOf(lines, "Concerns:") - 1)
ConcernEntries(lines) ==
    SubSeq(lines, IndexOf(lines, "Concerns:") + 1, Len(lines) - 1)

RealStrengths ==
    { "* Good ROE indicating profitability", "* Large-cap stock, stable",
      "* Positive price momentum" }
RealConcerns == { "* Low ROE, profitability concerns", "* Recent price decline" }
StrengthPlaceholder == "* Data limited for full analysis"
ConcernPlaceholder == "* Limited historical data available"

\* C11: in the fallback report the strengths and the concerns each have at
\* least one entry, and a category with no entry of its own holds exactly the
\* one generic placeholder
C11_NeverEmptySections ==
    UsesFallback =>
        LET strengths == StrengthEntries(res.final_summary.lines)
            concerns == ConcernEntries(res.final_summary.lines)
        IN /\ Len(strengths) >= 1
           /\ Len(concerns) >= 1
           /\ Range(strengths) \subseteq RealStrengths \cup {StrengthPlaceholder}
           /\ Range(concerns) \subseteq RealConcerns \cup {ConcernPlaceholder}
           /\ (Range(strengths) \cap RealStrengths = {}) <=> strengths = <<StrengthPlaceholder>>
           /\ (Range(concerns) \cap RealConcerns = {}) <=> concerns = <<ConcernPlaceholder>>

\* a report of two sources where both categories hold the placeholder
C11_Witness ==
    /\ UsesFallback
    /\ Len(res.sources) = 2
    /\ StrengthEntries(res.final_summary.lines) = <<StrengthPlaceholder>>
    /\ ConcernEntries(res.final_summary.lines) = <<ConcernPlaceholder>>

-----------------------------------------------------------------------------
(* Properties of two requests *)

BothAnswered ==
    /\ pc = "done" /\ res.success
    /\ parked.pc = "done" /\ parked.res.success

\* the same symbol, the same outcome of every extractor (a service has one
\* body per symbol) and the same outcome of the enrichment call
SameInputs ==
    /\ symbol = parked.symbol
    /\ promises = parked.promises
    /\ completion = parked.completion

\* the statement with the source lists compared as the arrays they are
C12_IdenticalSourceLists ==
    (BothAnswered /\ SameInputs) =>
        /\ res.summary = parked.res.summary
        /\ res.combined_data = parked.res.combined_data
        /\ res.sources = parked.res.sources

\* C12: two requests for the same symbol with identical extractor responses
\* and identical enrichment outcomes give identical deterministic summaries
\* and merged records and name the same sources, whatever the order in which
\* the extractors settled in either request; the order of the names in the
\* source list is the order in which the extractors succeeded
C12_Determinism ==
    (BothAnswered /\ SameInputs) =>
        /\ res.summary = parked.res.summary
        /\ res.combined_data = parked.res.combined_data
        /\ Range(res.sources) = Range(parked.res.sources)
        /\ Len(res.sources) = Len(parked.res.sources)
        /\ res.sources = getSourcesList(sources)
        /\ parked.res.sources = getSourcesList(parked.sources)

\* two answered requests with the same inputs whose extractors settled in
\* different orders
C12_Witness ==
    /\ BothAnswered
    /\ SameInputs
    /\ Len(sources.keys) = 3
    /\ sources.keys # parked.sources.keys

-----------------------------------------------------------------------------
(* Where the merged values come from *)

\* a resolved merged field is one of the values its sources produced, and a
\* field none of them produced is unresolved
FromSources(produced, merged) ==
    /\ Present(merged) => \E v \in produced : Present(v) /\ merged = v
    /\ (\A v \in produced : ~Present(v)) => ~Present(merged)

\* the statement for the fields read from the data
NumbersFromSources(srcs, m) ==
    LET y == srcs.yahoo_finance
        n == srcs.nse
        s == srcs.screener
    IN /\ FromSources({y.current_price, n.current_price, s.company_info.price},
                      m.current_price)
       /\ FromSources({y.change_percent, n.change_percent}, m.change_percent)
       /\ FromSources({s.ratios.pe_ratio, n.pe_ratio}, m.pe_ratio)
       /\ FromSources({s.ratios.market_cap}, m.market_cap)
       /\ FromSources({s.ratios.roe}, m.roe)
       /\ FromSources({s.ratios.book_value}, m.book_value)

\* the statement with the company name held to the same rule as the others
C13_NoDefaultInAnyField ==
    (pc = "done" /\ res.success) =>
        /\ NumbersFromSources(sources, res.combined_data)
        /\ FromSources({sources.nse.company_name, sources.screener.company_info.name},
                       res.combined_data.company_name)

\* C13: in the merged record every resolved field other than the company
\* name holds a value that a succeeded source produced for that field, and
\* such a field that no source of its priority list produced is left
\* unresolved, never zero or a placeholder; the company name is a name that
\* NSE or Screener produced or else the request's upper-cased symbol, which
\* the merge fills in when neither of them produced a name
C13_OnlyTheNameDefaults ==
    (pc = "done" /\ res.success) =>
        LET names == {sources.nse.company_name, sources.screener.company_info.name}
            name == res.combined_data.company_name
        IN /\ NumbersFromSources(sources, res.combined_data)
           /\ name \in { v \in names : Present(v) } \cup { Str(CharsText(stockSymbol)) }
           /\ (\A v \in names : ~Present(v)) => name = Str(CharsText(stockSymbol))

\* a report where Screener alone succeeded without a book value or a name:
\* the book value is unresolved and the name is the symbol
C13_Witness ==
    /\ pc = "done" /\ res.success
    /\ Succeeded = {"screener"}
    /\ ~Present(sources.screener.ratios.book_value)
    /\ ~Present(res.combined_data.book_value)
    /\ Present(res.combined_data.pe_ratio)
    /\ ~Present(sources.screener.company_info.name)
    /\ res.combined_data.company_name = Str("TCS")

-----------------------------------------------------------------------------
(* Isolation of two requests *)

\* what an extractor of a request for ticker stores when it succeeds
OwnData(key, ticker) ==
    CASE key = "yahoo_finance" -> YahooData(YahooQuote(ticker))
      [] key = "nse" -> NSEData(NSEQuote(ticker))
      [] key = "screener" -> ScreenerData(ScreenerPage(ticker))

\* the answer of request rq is the answer to its own symbol, computed from
\* the outcomes of its own three extractors and its own enrichment call
AnsweredAlone(rq) ==
    LET own == { e \in Extractors : rq.promises[e] = "data" }
        ticker == ToUpperCase(rq.symbol.chars)
        raw == rq.res.raw_data
        data == getCombinedData(raw, ticker)
    IN rq.pc = "done" =>
          IF own = {}
          THEN rq.res = ErrorResponse(500, ALL_SOURCES_FAILED)
          ELSE /\ rq.res.success
               /\ Range(raw.keys) = own
               /\ Len(raw.keys) = Cardinality(own)
               /\ \A e \in Extractors :
                     raw[e] = IF e \in own THEN OwnData(e, ticker) ELSE NoSources[e]
               /\ rq.res.symbol = ticker
               /\ rq.res.combined_data = data
               /\ rq.res.summary = generateSummary(data, ticker)
               /\ rq.res.sources = getSourcesList(raw)
               /\ rq.res.final_summary =
                     IF rq.completion.kind = "ok" THEN rq.completion.content
                     ELSE TextValue(generateBasicSummary(data, ticker, Len(raw.keys)))

\* C14: with two requests in flight and their callbacks interleaved in any
\* order, each response's raw data, merged record, summaries and source list
\* come from that request's own extractor outcomes and are what the request
\* returns when it runs alone
C14_NoCrossRequestState == AnsweredAlone(RequestState) /\ AnsweredAlone(parked)

\* two answered requests for different symbols whose extractors fared
\* differently
C14_Witness ==
    /\ BothAnswered
    /\ symbol # parked.symbol
    /\ promises # parked.promises
    /\ Len(sources.keys) = 2
    /\ Len(parked.sources.keys) = 1

-----------------------------------------------------------------------------
(* Properties of the risk tier, the change line and the call counts *)

\* C15: whenever the resolved P/E ratio is above 50 the deterministic summary
\* says High Risk, whatever the ROE and also when the ROE is unresolved, and
\* it says Medium Risk only when the ratio is unresolved or neither the Low
\* condition (ratio < 20 and ROE > 15) nor the High condition holds
C15_HighRiskWhateverROE ==
    (pc = "done" /\ res.success) =>
        LET ratio == res.combined_data.pe_ratio
            roe == res.combined_data.roe
            high == ratio.t = "number" /\ ratio.n > 5000
            low == /\ ratio.t = "number" /\ ratio.n < 2000
                   /\ roe.t = "number" /\ roe.n > 1500
        IN /\ high => "Risk Level: High Risk" \in Range(res.summary)
           /\ "Risk Level: Medium Risk" \in Range(res.summary) =>
                 (~Present(ratio) \/ (~low /\ ~high))

ChangeLine(v, direction) == "Today's Change: " \o Text(v) \o "% " \o direction

\* the deterministic summary has a change line, whatever direction it shows
HasChangeLine ==
    \E v \in {sources.yahoo_finance.change_percent, sources.nse.change_percent},
       direction \in {"UP", "DOWN"} : ChangeLine(v, direction) \in Range(res.summary)

\* C16: the deterministic summary has the change line exactly when Yahoo or
\* NSE supplied a change percent, zero included; the line shows the first
\* supplied value in that order, with DOWN exactly when the value is negative
C16_ChangeLine ==
    (pc = "done" /\ res.success) =>
        LET y == sources.yahoo_finance.change_percent
            n == sources.nse.change_percent
            v == IF Present(y) THEN y ELSE n
        IN IF Present(y) \/ Present(n)
           THEN ChangeLine(v, IF Lt(ParseFloat(v), 0) THEN "DOWN" ELSE "UP")
                   \in Range(res.summary)
           ELSE ~HasChangeLine

\* C17: every extractor is invoked once per request and its one invocation
\* issues one network call, whether it succeeds, fails or times out: no
\* endpoint is ever called a second time, the three extractors have each
\* been called once from the moment the scraper is constructed, and the
\* enrichment service is called at most once, only with a key configured
C17_SingleAttempt ==
    /\ \A e \in Endpoints : calls[e] <= 1
    /\ \A e \in Extractors : calls[e] = (IF constructed THEN 1 ELSE 0)
    /\ calls["openai"] = 1 =>
          (Truthy(OPENAI_API_KEY) /\ pc \in {"enriching", "done"} /\ NonePending)
    /\ (pc = "done" /\ res.success /\ Truthy(OPENAI_API_KEY)) => calls["openai"] = 1

\* a report after two extractors failed and the enrichment call timed out
C17_Witness ==
    /\ pc = "done" /\ res.success
    /\ promises["yahoo_finance"] = "null"
    /\ promises["screener"] = "null"
    /\ completion.kind = "timeout"
    /\ \A e \in Endpoints : calls[e] = 1

-----------------------------------------------------------------------------
(* Properties relating the two summaries *)

ClaimedStrengths(data) ==
    (IF data.roe.t = "number" /\ data.roe.n > 1500
     THEN {"* Good ROE indicating profitability"} ELSE {})
    \cup (IF data.market_cap.t = "number" /\ data.market_cap.n > 10000000
          THEN {"* Large-cap stock, stable"} ELSE {})
    \cup (IF Present(data.change_percent) /\ Gt(ParseFloat(data.change_percent), 0)
          THEN {"* Positive price momentum"} ELSE {})

ClaimedConcerns(data) ==
    (IF data.roe.t = "number" /\ ~(data.roe.n > 1500)
     THEN {"* Low ROE, profitability concerns"} ELSE {})
    \cup (IF Present(data.change_percent) /\ ~Gt(ParseFloat(data.change_percent), 0)
          THEN {"* Recent price decline"} ELSE {})

\* C18: in the fallback report a resolved ROE above 15 gives the
\* profitability strength and any other resolved ROE the profitability
\* concern, a market cap above the large-cap threshold gives the stability
\* strength, a resolved change percent above zero gives the momentum strength
\* and any other resolved change percent the momentum concern, and an
\* unresolved input gives no entry
C18_StrengthsAndConcerns ==
    UsesFallback =>
        /\ Range(StrengthEntries(res.final_summary.lines)) \cap RealStrengths
              = ClaimedStrengths(res.combined_data)
        /\ Range(ConcernEntries(res.final_summary.lines)) \cap RealConcerns
              = ClaimedConcerns(res.combined_data)

\* the tier of the deterministic summary and the valuation of the fallback
\* report that names the same tier
SameValuation ==
    { <<"Cheap", "Cheap (Low P/E)">>, <<"Fair", "Fair">>,
      <<"Expensive", "Expensive (High P/E)">> }
SameRisk ==
    { <<"Low Risk", "Low">>, <<"Medium Risk", "Moderate">>, <<"High Risk", "High">> }

PELine(tier) ==
    "P/E Ratio: " \o ToFixed2(res.combined_data.pe_ratio.n) \o " (" \o tier \o ")"
SummaryTiers == {"Cheap", "Fair", "Expensive", "Very Expensive"}

\* C19: in a response that carries the fallback report, the valuation and the
\* risk level of the fallback report name the same tiers as the deterministic
\* summary of that response (Moderate standing for Medium; a summary without
\* a P/E line stands for Fair)
C19_SummariesAgree ==
    UsesFallback =>
        /\ \E pair \in SameValuation :
              /\ \/ PELine(pair[1]) \in Range(res.summary)
                 \/ /\ pair[1] = "Fair"
                    /\ \A tier \in SummaryTiers : PELine(tier) \notin Range(res.summary)
              /\ ("Valuation: " \o pair[2]) \in Range(res.final_summary.lines)
        /\ \E pair \in SameRisk :
              /\ ("Risk Level: " \o pair[1]) \in Range(res.summary)
              /\ ("Risk Level: " \o pair[2]) \in Range(res.final_summary.lines)

ShowsDirection(direction) ==
    \E v \in {sources.yahoo_finance.change_percent, sources.nse.change_percent} :
        ChangeLine(v, direction) \in Range(res.summary)

\* C20: when the change line of the deterministic summary says UP the
\* fallback report lists the positive momentum strength and not the price
\* decline concern, and when it says DOWN the fallback report lists the
\* price decline concern, for every change percent, zero included
C20_DirectionMatchesMomentum ==
    UsesFallback =>
        LET strengths == Range(StrengthEntries(res.final_summary.lines))
            concerns == Range(ConcernEntries(res.final_summary.lines))
        IN /\ ShowsDirection("UP") =>
                 /\ "* Positive price momentum" \in strengths
                 /\ "* Recent price decline" \notin concerns
           /\ ShowsDirection("DOWN") => "* Recent price decline" \in concerns

====
